---- MODULE Spec2Model ----
(***************************************************************************)
(* A model of sammy (src/sammy/sammy.py): the workspace locator            *)
(* (FileUpsearch), the package commands (install, remove), the start       *)
(* command, the firmware build pipeline (build, GenerateAndCheck) and the  *)
(* host test build (build_test).                                           *)
(***************************************************************************)
EXTENDS Integers, Sequences, FiniteSets, TLC

\* ------------------------------------------------------------------------
\* Bounds
\* ------------------------------------------------------------------------
MaxDepth == 3      \* depth of the directory tree below "/"
MaxStart == 4      \* number of components of a starting path

\* ------------------------------------------------------------------------
\* File system: directories are absolute paths, written as the sequence of
\* their components; <<>> is "/".
\* ------------------------------------------------------------------------
DirNames == {"a"}
FileNames == {"main.cpp"}
DotDot == ".."
NoEnt == <<"ENOENT">>

RECURSIVE SeqsUpTo(_, _)
SeqsUpTo(S, n) ==
  IF n = 0 THEN {<<>>}
  ELSE LET shorter == SeqsUpTo(S, n - 1)
       IN  shorter \cup {Append(s, x) : s \in {t \in shorter : Len(t) = n - 1}, x \in S}

Dirs == SeqsUpTo(DirNames, MaxDepth)

Front(p) == SubSeq(p, 1, Len(p) - 1)

\* What the kernel does with a path: each component is looked up in the
\* directory reached so far, ".." goes to that directory's parent ("/.." is
\* "/"), a component that names no directory gives ENOENT.
RECURSIVE Walk(_, _)
Walk(phys, rest) ==
  IF rest = <<>> THEN phys
  ELSE LET c == Head(rest)
       IN  IF c = DotDot
           THEN Walk(IF phys = <<>> THEN <<>> ELSE Front(phys), Tail(rest))
           ELSE IF Append(phys, c) \in Dirs
                THEN Walk(Append(phys, c), Tail(rest))
                ELSE NoEnt

Resolve(p) == IF p = NoEnt THEN NoEnt ELSE Walk(<<>>, p)

\* Path(p).is_dir()
IsDir(p) == Resolve(p) # NoEnt

\* os.path.dirname of an absolute path string: drops the last component,
\* textually; the dirname of "/" is "/".
Dirname(p) == IF p = <<>> THEN <<>> ELSE Front(p)

\* os.listdir(p) contains the marker '.sj2'
ListdirHasMarker(p, mk) == Resolve(p) \in mk

VARIABLES
  marked,     \* the directories that contain the marker .sj2
  start,      \* FileUpsearch: starting_position
  cur_dir,    \* FileUpsearch: cur_dir, [path, ty] with ty the Python type
  us_pc,      \* FileUpsearch: "loop", "returned", "raised", "oserror"
  us_iters    \* FileUpsearch: loop iterations done

usVars == <<marked, start, cur_dir, us_pc, us_iters>>

VARIABLES
  packages,   \* <workspace>/packages/<name>: the tree cloned there, or Absent
  library,    \* <workspace>/library/<name>: the name n of the package whose
              \* packages/n/n the link points at, or NoLink
  cwd,        \* working directory of the process of the last command
  last,       \* the last command: arguments and outcome
  prev,       \* the command before it
  nops        \* commands run

pkgVars == <<packages, library, cwd, last, prev, nops>>

VARIABLES
  stage,        \* build: the stage the invocation is in
  failed_stage, \* build: the stage that failed, "" when none did
  source,       \* build: the source argument
  run,          \* build: the os.system calls of this invocation, in order,
                \* each with its label and exit code
  printed,      \* build: what this invocation printed
  artifacts,    \* build/<platform>/...: for each artifact file the number of
                \* the build that wrote it last, 0 when the file is absent
  gcc_txt,      \* library/lib<platform>/platform/gcc.txt exists
  build_no,     \* build invocations so far
  exception,    \* build: the message of the exception GenerateAndCheck
                \* raised in this invocation, "" when it raised none
  exit_status   \* build: the exit status of the process, NotRun while the
                \* command is running

bldVars ==
  <<stage, failed_stage, source, run, printed, artifacts, gcc_txt, build_no,
    exception, exit_status>>

VARIABLES
  st_pc,             \* start: "idle" before the command, "installing"
                     \* between the installs, or how the command ended
  project_name,      \* start: the project_name argument
  project,           \* start: the directory that was made for the project
  final_branch_name, \* start: the tag of the toolchain for this system
  resolved           \* start: for each install so far the PROJECT_DIRECTORY
                     \* it found, NoEnt when it found none

stVars == <<st_pc, project_name, project, final_branch_name, resolved>>

VARIABLES
  test_stage,   \* build-test: the stage the invocation is in
  test_failed,  \* build-test: the stage that failed, "" when none did
  test_source,  \* build-test: the test_source_code argument
  run_flag,     \* build-test: the --run flag
  test_run,     \* build-test: the os.system calls of this invocation, in
                \* order, each with its exit code and with the .gcda file as
                \* it was when the process started
  test_files,   \* build/test/...: for the executable and the .gcda file the
                \* number of the invocation that wrote it last, 0 when absent
  test_no       \* build-test invocations so far

btVars == <<test_stage, test_failed, test_source, run_flag, test_run, test_files, test_no>>

vars == <<usVars, pkgVars, bldVars, stVars, btVars>>

\* cur_dir before the loop: Path(start).absolute() for a directory (keeps
\* ".." components), Path(start).parent.resolve() otherwise (canonical).
UpsearchEntry(starting_position) ==
  IF IsDir(starting_position)
  THEN [path |-> starting_position, ty |-> "Path"]
  ELSE [path |-> Resolve(Front(starting_position)), ty |-> "Path"]

\* cur_dir == parent_dir, where parent_dir is always a str: a Path never
\* equals a str.
EqualsParent(cur, parent_dir) == cur.ty = "str" /\ cur.path = parent_dir

\* One iteration of the while loop.
UpsearchBody(cur, mk) ==
  IF cur.path = NoEnt THEN [k |-> "oserror", v |-> cur]
  ELSE LET parent_dir == Dirname(cur.path)
       IN  IF ListdirHasMarker(cur.path, mk) THEN [k |-> "returned", v |-> cur]
           ELSE IF EqualsParent(cur, parent_dir) THEN [k |-> "raised", v |-> cur]
           ELSE [k |-> "loop", v |-> [path |-> parent_dir, ty |-> "str"]]

\* The whole call, for the commands that use it.
RECURSIVE UpsearchLoop(_, _)
UpsearchLoop(cur, mk) ==
  LET r == UpsearchBody(cur, mk)
  IN  IF r.k = "loop" THEN UpsearchLoop(r.v, mk) ELSE r

FileUpsearch(starting_position, mk) == UpsearchLoop(UpsearchEntry(starting_position), mk)

\* Starting positions: directories, files, and paths through something
\* that is no directory.
StartComponents == DirNames \cup {DotDot} \cup FileNames
StartPaths == SeqsUpTo(StartComponents, MaxStart)

UpsearchCall(sp) ==
  /\ us_pc # "loop"
  /\ start' = sp
  /\ cur_dir' = UpsearchEntry(sp)
  /\ us_pc' = "loop"
  /\ us_iters' = 0
  /\ UNCHANGED <<marked, pkgVars, bldVars, stVars, btVars>>

UpsearchReturn ==
  /\ us_pc = "loop"
  /\ UpsearchBody(cur_dir, marked).k = "returned"
  /\ us_pc' = "returned"
  /\ us_iters' = us_iters + 1
  /\ UNCHANGED <<marked, start, cur_dir, pkgVars, bldVars, stVars, btVars>>

UpsearchRaise ==
  /\ us_pc = "loop"
  /\ UpsearchBody(cur_dir, marked).k = "raised"
  /\ us_pc' = "raised"
  /\ us_iters' = us_iters + 1
  /\ UNCHANGED <<marked, start, cur_dir, pkgVars, bldVars, stVars, btVars>>

UpsearchListdirFails ==
  /\ us_pc = "loop"
  /\ UpsearchBody(cur_dir, marked).k = "oserror"
  /\ us_pc' = "oserror"
  /\ us_iters' = us_iters + 1
  /\ UNCHANGED <<marked, start, cur_dir, pkgVars, bldVars, stVars, btVars>>

UpsearchAscend ==
  /\ us_pc = "loop"
  /\ UpsearchBody(cur_dir, marked).k = "loop"
  /\ cur_dir' = UpsearchBody(cur_dir, marked).v
  /\ us_iters' = us_iters + 1
  /\ UNCHANGED <<marked, start, us_pc, pkgVars, bldVars, stVars, btVars>>

\* No search in progress.
UpsearchIdle ==
  /\ start = <<>>
  /\ cur_dir = [path |-> <<>>, ty |-> "Path"]
  /\ us_pc = "idle"
  /\ us_iters = 0

\* ------------------------------------------------------------------------
\* Package commands: install and remove
\* ------------------------------------------------------------------------
MaxOps == 3        \* number of commands run on the workspace

\* The project of the package commands and the --project_directory values
\* they are given: outside the project, its root, and inside it.
Workspace == <<"a">>
ProjectDirectories == {<<>>, <<"a">>, <<"a", "a">>}

\* The directory the commands are run from.
InvocationCwd == <<>>

\* GetListOfSJSUDev2Repos(): the registry, name to clone URL.
GetListOfSJSUDev2Repos ==
  ("libcore" :> "https://github.com/SJSU-Dev2/libcore.git") @@
  ("libarmcortex" :> "https://github.com/SJSU-Dev2/libarmcortex.git") @@
  ("liblpc40xx" :> "https://github.com/SJSU-Dev2/liblpc40xx.git") @@
  ("libstm32f10x" :> "https://github.com/SJSU-Dev2/libstm32f10x.git") @@
  ("gcc-arm-none-eabi-picolibc" :>
     "https://github.com/SJSU-Dev2/gcc-arm-none-eabi-picolibc.git")

\* giturlparse.parse(url).name for the strings that match a URL pattern;
\* for any other string the parse result has no attribute 'name'.
UrlName ==
  ("https://github.com/SJSU-Dev2/libcore.git" :> "libcore") @@
  ("https://github.com/SJSU-Dev2/libarmcortex.git" :> "libarmcortex") @@
  ("https://github.com/SJSU-Dev2/liblpc40xx.git" :> "liblpc40xx") @@
  ("https://github.com/SJSU-Dev2/libstm32f10x.git" :> "libstm32f10x") @@
  ("git@github.com:SJSU-Dev2/libcore.git" :> "libcore") @@
  ("https://github.com/SJSU-Dev2/gcc-arm-none-eabi-picolibc.git" :>
     "gcc-arm-none-eabi-picolibc")

NoName == "AttributeError"
RepoName(url) == IF url \in DOMAIN UrlName THEN UrlName[url] ELSE NoName

\* The packages 'start' installs, in its order, and the ones among them
\* that are libraries.
StartLibraries ==
  <<"libcore", "libarmcortex", "liblpc40xx", "libstm32f10x", "gcc-arm-none-eabi-picolibc">>
StartPackages == {StartLibraries[i] : i \in DOMAIN StartLibraries}
LibraryRepos == {n \in StartPackages : n # "gcc-arm-none-eabi-picolibc"}

\* The packages and the identifiers the install and remove commands are
\* tried with: one library and the toolchain, by registry key and by URL,
\* and a string that is neither.
ShortNames == {"libcore", "gcc-arm-none-eabi-picolibc"}
Identifiers ==
  ShortNames \cup {u \in DOMAIN UrlName : UrlName[u] \in ShortNames} \cup {"notapackage"}
Tags == {"main", "v2"}

\* The tree a clone of repository name at branch tag produces; a library
\* holds a directory named like the repository, a toolchain does not.
Absent == [repo |-> "", tag |-> "", inner |-> FALSE]
Tree(name, tag) == [repo |-> name, tag |-> tag, inner |-> (name \in LibraryRepos)]
NoLink == ""

\* The entry of a directory listing at the path component the caller built
\* from name; a name with "/" in it (a URL) names no entry.
EntryAt(dir, name, none) == IF name \in DOMAIN dir THEN dir[name] ELSE none

\* Path(path).unlink(), FileNotFoundError passed over.
AttemptToUnlinkPath(lib, name) ==
  IF name \in DOMAIN lib THEN [lib EXCEPT ![name] = NoLink] ELSE lib

\* os.system('git clone <url> --branch <tag>') in <workspace>/packages: git
\* refuses a destination that exists and is not empty, and leaves nothing
\* behind when it fails.
GitClone(pk, url, tag, remote_ok) ==
  LET name == RepoName(url)
  IN  IF remote_ok /\ pk[name] = Absent
      THEN [exit_code |-> 0, packages |-> [pk EXCEPT ![name] = Tree(name, tag)]]
      ELSE [exit_code |-> 128, packages |-> pk]

\* (variant: the registry is not consulted)
ResolveLibrary_NoRegistry(lib_arg, package_registry) == lib_arg

\* library = package_registry[library] if library in package_registry
ResolveLibrary(lib_arg, package_registry) ==
  IF lib_arg \in DOMAIN package_registry THEN package_registry[lib_arg] ELSE lib_arg

\* (variant: the test looks at packages/<repo_name>)
PackagePathExists_Outer(pk, repo_name) == pk[repo_name] # Absent

\* Path(package_path).exists() for packages/<repo_name>/<repo_name>
PackagePathExists(pk, repo_name) == pk[repo_name].inner

\* (variant: the old link is removed before the exit code is looked at)
LinkPackage_UnlinkFirst(exit_code, lib, pk, repo_name, symlink_ok) ==
  LET unlinked == AttemptToUnlinkPath(lib, repo_name)
  IN  IF exit_code = 0 /\ PackagePathExists(pk, repo_name) /\ symlink_ok
      THEN [unlinked EXCEPT ![repo_name] = repo_name]
      ELSE unlinked

\* The body of 'if exit_code == 0': unlink, then link when the package
\* holds packages/<repo_name>/<repo_name>; a failing symlink_to is ignored.
LinkPackage(exit_code, lib, pk, repo_name, symlink_ok) ==
  IF exit_code = 0
  THEN LET unlinked == AttemptToUnlinkPath(lib, repo_name)
       IN  IF PackagePathExists(pk, repo_name) /\ symlink_ok
           THEN [unlinked EXCEPT ![repo_name] = repo_name]
           ELSE unlinked
  ELSE lib

NotRun == -1   \* exit code of a process that was not started

\* What is recorded of a command: its arguments, the state of the remote
\* and of the platform where the command got to use them, what it found
\* and how it ended.
NoCommand ==
  [op |-> "none", id |-> "", tag |-> "", found |-> FALSE, url |-> "",
   name |-> "", remote_ok |-> FALSE, symlink_ok |-> FALSE, clone_exit |-> NotRun,
   had_cache |-> FALSE, had_link |-> FALSE, result |-> "none", exit |-> 0,
   looked_up |-> FALSE]

\* What is kept of the command before the last one.
Summary(cmd) ==
  [op |-> cmd.op, id |-> cmd.id, name |-> cmd.name, tag |-> cmd.tag,
   remote_ok |-> cmd.remote_ok, result |-> cmd.result]

\* A new workspace: 'start' has made library/ and packages/, both empty.
PackagesIdle ==
  /\ packages = [n \in ShortNames |-> Absent]
  /\ library = [n \in ShortNames |-> NoLink]
  /\ cwd = InvocationCwd
  /\ last = NoCommand
  /\ prev = Summary(NoCommand)
  /\ nops = 0

\* (variant: the working directory is changed before the search)
WorkingDirectory_ChdirFirst(found, invocation_cwd) ==
  IF found.k = "returned" THEN Append(Resolve(found.v.path), "packages")
  ELSE Append(invocation_cwd, "packages")

\* The working directory of the process when install ends: os.chdir comes
\* after the try block, whose except clause returns.
WorkingDirectory(found, invocation_cwd) ==
  IF found.k = "returned" THEN Append(Resolve(found.v.path), "packages")
  ELSE invocation_cwd

install(lib_arg, project_directory, tag, remote_ok, symlink_ok) ==
  LET found == FileUpsearch(project_directory, marked)
      url == ResolveLibrary(lib_arg, GetListOfSJSUDev2Repos)
      repo_name == RepoName(url)
      cmd == [NoCommand EXCEPT !.op = "install", !.id = lib_arg, !.tag = tag]
  IN  /\ nops < MaxOps
      /\ nops' = nops + 1
      /\ prev' = Summary(last)
      /\ cwd' = WorkingDirectory(found, InvocationCwd)
      /\ UNCHANGED <<marked, start, cur_dir, us_pc, us_iters, bldVars, stVars, btVars>>
      /\ IF found.k # "returned"
         THEN \* except: 'Could not find a SJSU-Dev2 project!'; return
              /\ last' = [cmd EXCEPT !.result = "noworkspace"]
              /\ UNCHANGED <<packages, library>>
         ELSE /\ IF repo_name = NoName
                 THEN \* giturlparse.parse(library).name raises
                      /\ last' = [cmd EXCEPT !.found = TRUE, !.url = url,
                                             !.looked_up = TRUE,
                                             !.result = "invalid", !.exit = 1]
                      /\ UNCHANGED <<packages, library>>
                 ELSE LET clone == GitClone(packages, url, tag, remote_ok)
                      IN  /\ packages' = clone.packages
                          /\ library' = LinkPackage(clone.exit_code, library,
                                                    clone.packages, repo_name, symlink_ok)
                          /\ last' = [cmd EXCEPT
                                        !.found = TRUE, !.url = url, !.name = repo_name,
                                        !.looked_up = TRUE,
                                        !.clone_exit = clone.exit_code,
                                        !.remote_ok = remote_ok,
                                        !.symlink_ok = symlink_ok,
                                        !.had_cache = (packages[repo_name] # Absent),
                                        !.had_link = (library[repo_name] # NoLink),
                                        !.result = IF clone.exit_code = 0 THEN "ok"
                                                   ELSE "fetchfailed",
                                        !.exit = IF clone.exit_code = 0 THEN 0 ELSE 1]

\* (variant: rmtree with ignore_errors=True)
Rmtree_IgnoreErrors(pk, name) ==
  [raised |-> FALSE,
   packages |-> IF name \in DOMAIN pk THEN [pk EXCEPT ![name] = Absent] ELSE pk]

\* shutil.rmtree(path, onerror=DeleteReadOnlyFiles): a path that does not
\* exist reaches DeleteReadOnlyFiles, whose os.chmod raises FileNotFoundError.
Rmtree(pk, name) ==
  IF EntryAt(pk, name, Absent) = Absent
  THEN [raised |-> TRUE, packages |-> pk]
  ELSE [raised |-> FALSE, packages |-> [pk EXCEPT ![name] = Absent]]

\* remove puts its argument into both paths as it is. An argument with
\* ".." in it names a path that leaves library/ and packages/; a URL names
\* a path whose first component exists nowhere.
TraversalPath ==
  ("gcc-arm-none-eabi-picolibc/.." :> <<"gcc-arm-none-eabi-picolibc", DotDot>>) @@
  ("gcc-arm-none-eabi-picolibc/../.." :>
     <<"gcc-arm-none-eabi-picolibc", DotDot, DotDot>>)
ArgPath(lib_arg) ==
  IF lib_arg \in DOMAIN TraversalPath THEN TraversalPath[lib_arg] ELSE <<lib_arg>>
RemoveArguments == Identifiers \cup DOMAIN TraversalPath

\* The directories of the workspace, as paths below its root (<<>>), and
\* the directory above it.
Above == <<DotDot>>

\* One component c looked up in directory pos, as the kernel does it: ".."
\* is the parent directory, a link under library/ is followed.
WsStep(pos, c, pk, lib) ==
  IF pos = NoEnt THEN NoEnt
  ELSE IF c = DotDot
  THEN IF pos = <<>> \/ pos = Above THEN Above ELSE Front(pos)
  ELSE IF pos = <<>>
  THEN IF c \in {"library", "packages"} THEN <<c>> ELSE NoEnt
  ELSE IF pos = <<"packages">>
  THEN IF EntryAt(pk, c, Absent) # Absent THEN <<"packages", c>> ELSE NoEnt
  ELSE IF pos = <<"library">>
  THEN LET to == EntryAt(lib, c, NoLink)
       IN  IF to # NoLink /\ pk[to].inner THEN <<"packages", to, to>> ELSE NoEnt
  ELSE IF Len(pos) = 2 /\ pos[1] = "packages"
  THEN IF c = pos[2] /\ pk[c].inner THEN <<"packages", c, c>> ELSE NoEnt
  ELSE NoEnt

RECURSIVE WsWalk(_, _, _, _)
WsWalk(pos, comps, pk, lib) ==
  IF comps = <<>> THEN pos
  ELSE WsWalk(WsStep(pos, comps[1], pk, lib), Tail(comps), pk, lib)

\* AttemptToUnlinkPath(f'{PROJECT_DIRECTORY}/library/{library}'): a path
\* that does not resolve is passed over, a path that names a directory
\* raises IsADirectoryError.
UnlinkArgument(lib, pk, lib_arg) ==
  LET comps == ArgPath(lib_arg)
      parent == WsWalk(<<"library">>, Front(comps), pk, lib)
      name == comps[Len(comps)]
  IN  IF parent = NoEnt THEN [raised |-> FALSE, library |-> lib]
      ELSE IF parent = <<"library">> /\ name # DotDot
      THEN [raised |-> FALSE, library |-> AttemptToUnlinkPath(lib, name)]
      ELSE [raised |-> WsStep(parent, name, pk, lib) # NoEnt, library |-> lib]

\* shutil.rmtree(f'{PROJECT_DIRECTORY}/packages/{library}/', ...): the tree
\* at the directory the path resolves to is deleted, whatever it is. When
\* the path went through a directory of that tree the final rmdir no longer
\* finds it and DeleteReadOnlyFiles raises FileNotFoundError.
RmtreeArgument(pk, lib, mk, lib_arg) ==
  LET comps == ArgPath(lib_arg)
      target == WsWalk(<<"packages">>, comps, pk, lib)
      nothing == [n \in DOMAIN pk |-> Absent]
  IN  IF Len(comps) = 1
      THEN LET rm == Rmtree(pk, lib_arg)
           IN  [raised |-> rm.raised, packages |-> rm.packages,
                library |-> lib, marked |-> mk]
      ELSE IF target = NoEnt
      THEN [raised |-> TRUE, packages |-> pk, library |-> lib, marked |-> mk]
      ELSE IF target = <<>> \/ target = Above
      THEN [raised |-> TRUE, packages |-> nothing,
            library |-> [n \in DOMAIN lib |-> NoLink], marked |-> mk \ {Workspace}]
      ELSE IF target = <<"packages">>
      THEN [raised |-> TRUE, packages |-> nothing, library |-> lib, marked |-> mk]
      ELSE IF Len(target) = 2
      THEN [raised |-> FALSE, packages |-> Rmtree(pk, target[2]).packages,
            library |-> lib, marked |-> mk]
      ELSE [raised |-> FALSE, packages |-> [pk EXCEPT ![target[2]].inner = FALSE],
            library |-> lib, marked |-> mk]

remove(lib_arg, project_directory) ==
  LET found == FileUpsearch(project_directory, marked)
      cmd == [NoCommand EXCEPT !.op = "remove", !.id = lib_arg]
  IN  /\ nops < MaxOps
      /\ nops' = nops + 1
      /\ prev' = Summary(last)
      /\ cwd' = InvocationCwd
      /\ UNCHANGED <<start, cur_dir, us_pc, us_iters, bldVars, stVars, btVars>>
      /\ IF found.k # "returned"
         THEN /\ last' = [cmd EXCEPT !.result = "noworkspace"]
              /\ UNCHANGED <<packages, library, marked>>
         ELSE LET un == UnlinkArgument(library, packages, lib_arg)
                  rm == RmtreeArgument(packages, un.library, marked, lib_arg)
                  seen == [cmd EXCEPT
                             !.found = TRUE, !.name = lib_arg,
                             !.had_cache = (EntryAt(packages, lib_arg, Absent) # Absent),
                             !.had_link = (EntryAt(library, lib_arg, NoLink) # NoLink)]
              IN  IF un.raised
                  THEN /\ last' = [seen EXCEPT !.result = "isadirectory", !.exit = 1]
                       /\ UNCHANGED <<packages, library, marked>>
                  ELSE /\ library' = rm.library
                       /\ packages' = rm.packages
                       /\ marked' = rm.marked
                       /\ last' = [seen EXCEPT
                                     !.result = IF rm.raised THEN "notfound" ELSE "ok",
                                     !.exit = IF rm.raised THEN 1 ELSE 0]

\* ------------------------------------------------------------------------
\* start: a new project and the five installs into it
\* ------------------------------------------------------------------------
\* The directory 'start' is run from and the directories there are before
\* it; the forms of project_name: absolute, one segment, two segments, the
\* name of a package, and a name that is taken.
StartCwd == <<"w">>
BaseDirs == {<<>>, <<"w">>, <<"w", "sub">>}
ProjectNames ==
  {[abs |-> TRUE, comps |-> <<"w", "proj">>],
   [abs |-> FALSE, comps |-> <<"proj">>],
   [abs |-> FALSE, comps |-> <<"sub", "proj">>],
   [abs |-> FALSE, comps |-> <<"libcore">>],
   [abs |-> FALSE, comps |-> <<"sub">>]}
NoProjectName == [abs |-> FALSE, comps |-> <<>>]

\* platform.system() and platform.machine()
Platforms ==
  {<<"Linux", "x86_64">>, <<"Linux", "aarch64">>, <<"Darwin", "arm64">>,
   <<"Windows", "AMD64">>, <<"FreeBSD", "amd64">>}

OsExtension(system, machine) ==
  IF system = "Linux"
  THEN IF machine = "x86_64" THEN "x86_64-linux" ELSE "aarch64-linux"
  ELSE IF system = "Darwin" THEN "mac"
  ELSE IF system = "Windows" THEN "win32"
  ELSE ""

\* f'{gcc_version}{os_extension}'
FinalBranchName(os_extension) ==
  CASE os_extension = "x86_64-linux" -> "10-2020-q4-major-x86_64-linux"
    [] os_extension = "aarch64-linux" -> "10-2020-q4-major-aarch64-linux"
    [] os_extension = "mac" -> "10-2020-q4-major-mac"
    [] os_extension = "win32" -> "10-2020-q4-major-win32"
    [] OTHER -> "10-2020-q4-major-"

\* The directories that exist: the ones from before, the project with
\* library/ and packages/, and what the clones put under packages/.
ExistingDirs(proj, pk) ==
  BaseDirs \cup
  (IF proj = NoEnt THEN {}
   ELSE {proj, Append(proj, "library"), Append(proj, "packages")} \cup
        {proj \o <<"packages", n>> : n \in {m \in DOMAIN pk : pk[m] # Absent}} \cup
        {proj \o <<"packages", n, n>> : n \in {m \in DOMAIN pk : pk[m].inner}})

\* Path resolution by the kernel over the directories D.
RECURSIVE WalkIn(_, _, _)
WalkIn(D, phys, rest) ==
  IF rest = <<>> THEN phys
  ELSE LET c == Head(rest)
       IN  IF c = DotDot
           THEN WalkIn(D, IF phys = <<>> THEN <<>> ELSE Front(phys), Tail(rest))
           ELSE IF Append(phys, c) \in D
                THEN WalkIn(D, Append(phys, c), Tail(rest))
                ELSE NoEnt

ResolveIn(D, p) == IF p = NoEnt THEN NoEnt ELSE WalkIn(D, <<>>, p)

\* Path(name).absolute(): a relative path is put behind the working
\* directory of the process.
Absolute(wd, name) == IF name.abs THEN name.comps ELSE wd \o name.comps

\* FileUpsearch for a path that may be relative, over the directories D
\* and with the working directory wd: is_dir(), absolute() and
\* parent.resolve() all start from wd.
UpsearchEntryIn(D, wd, starting_position) ==
  LET full == Absolute(wd, starting_position)
  IN  IF ResolveIn(D, full) # NoEnt
      THEN [path |-> full, ty |-> "Path"]
      ELSE [path |-> ResolveIn(D, Front(full)), ty |-> "Path"]

UpsearchBodyIn(D, cur, mk) ==
  IF ResolveIn(D, cur.path) = NoEnt THEN [k |-> "oserror", v |-> cur]
  ELSE LET parent_dir == Dirname(cur.path)
       IN  IF ResolveIn(D, cur.path) \in mk THEN [k |-> "returned", v |-> cur]
           ELSE IF EqualsParent(cur, parent_dir) THEN [k |-> "raised", v |-> cur]
           ELSE [k |-> "loop", v |-> [path |-> parent_dir, ty |-> "str"]]

RECURSIVE UpsearchLoopIn(_, _, _)
UpsearchLoopIn(D, cur, mk) ==
  LET r == UpsearchBodyIn(D, cur, mk)
  IN  IF r.k = "loop" THEN UpsearchLoopIn(D, r.v, mk) ELSE r

FileUpsearchIn(D, wd, starting_position, mk) ==
  UpsearchLoopIn(D, UpsearchEntryIn(D, wd, starting_position), mk)

StartIdle ==
  /\ st_pc = "idle"
  /\ project_name = NoProjectName
  /\ project = NoEnt
  /\ final_branch_name = ""
  /\ resolved = <<>>

\* start up to the first install: the system is looked at, the project
\* directory is made (Path.mkdir: the parent must exist, the directory must
\* not), then .sj2, library/, packages/ and main.cpp in it.
StartProject(name, platform) ==
  LET os_extension == OsExtension(platform[1], platform[2])
      target == Absolute(cwd, name)
      dirs == ExistingDirs(project, packages)
      parent == ResolveIn(dirs, Front(target))
  IN  /\ st_pc = "idle"
      /\ project_name' = name
      /\ final_branch_name' = FinalBranchName(os_extension)
      /\ IF os_extension = ""
         THEN \* return -1
              /\ st_pc' = "unsupported"
              /\ UNCHANGED <<project, marked>>
         ELSE IF parent = NoEnt \/ ResolveIn(dirs, target) # NoEnt
         THEN \* FileNotFoundError or FileExistsError from mkdir
              /\ st_pc' = "mkdirfailed"
              /\ UNCHANGED <<project, marked>>
         ELSE /\ st_pc' = "installing"
              /\ project' = Append(parent, target[Len(target)])
              /\ marked' = marked \cup {Append(parent, target[Len(target)])}
      /\ UNCHANGED <<resolved, start, cur_dir, us_pc, us_iters, pkgVars, bldVars, btVars>>

\* The next context.invoke(install, library=..., tag=...,
\* project_directory=project_name): install as a function call in the
\* process of start, with the working directory the install before it left.
StartInstall(remote_ok, symlink_ok) ==
  LET k == Len(resolved) + 1
      lib_arg == StartLibraries[k]
      tag == IF k = Len(StartLibraries) THEN final_branch_name ELSE "main"
      dirs == ExistingDirs(project, packages)
      found == FileUpsearchIn(dirs, cwd, project_name, marked)
      url == ResolveLibrary(lib_arg, GetListOfSJSUDev2Repos)
      repo_name == RepoName(url)
      clone == GitClone(packages, url, tag, remote_ok)
      after == IF k = Len(StartLibraries) THEN "done" ELSE "installing"
  IN  /\ st_pc = "installing"
      /\ IF found.k # "returned"
         THEN \* except: 'Could not find a SJSU-Dev2 project!'; return
              /\ resolved' = Append(resolved, NoEnt)
              /\ st_pc' = after
              /\ UNCHANGED <<cwd, packages, library>>
         ELSE LET PROJECT_DIRECTORY == ResolveIn(dirs, found.v.path)
              IN  /\ resolved' = Append(resolved, PROJECT_DIRECTORY)
                  /\ cwd' = Append(PROJECT_DIRECTORY, "packages")
                  /\ packages' = clone.packages
                  /\ library' = LinkPackage(clone.exit_code, library, clone.packages,
                                            repo_name, symlink_ok)
                  /\ st_pc' = IF clone.exit_code = 0 THEN after ELSE "exited"
      /\ UNCHANGED <<marked, project_name, project, final_branch_name, last, prev, nops,
                     start, cur_dir, us_pc, us_iters, bldVars, btVars>>

\* ------------------------------------------------------------------------
\* build: compile and link, then the five artifact steps
\* ------------------------------------------------------------------------
MaxBuilds == 2     \* number of build invocations

\* The source arguments: a file outside the project and one in its root.
BuildSources == {<<"main.cpp">>, <<"a", "main.cpp">>}

\* os.system's result: zero, the wait status of a process that exited with
\* 1, or that of a shell that did not find the command (127).
ExitCodes == {0, 256, 32512}

CHECK_MARK == "CHECK_MARK"
CROSS_MARK == "CROSS_MARK"

\* The stages of one invocation, in the order of the code.
StageOrder ==
  <<"LOCATING_WORKSPACE", "ASSEMBLING_COMMAND", "COMPILING", "EXTRACTING_BINARY",
    "EXTRACTING_HEX", "DISASSEMBLING", "DISASSEMBLING_WITH_SOURCE", "SIZING", "DONE">>

Rank(st) == CHOOSE i \in DOMAIN StageOrder : StageOrder[i] = st

\* (variant: the .hex step is left out)
NextStage_SkipsHex(st) ==
  IF st = "EXTRACTING_BINARY" THEN "DISASSEMBLING" ELSE StageOrder[Rank(st) + 1]

\* The statement that follows the one of stage st.
NextStage(st) == StageOrder[Rank(st) + 1]

\* The error_message of the GenerateAndCheck call of each stage.
ErrorMessage ==
  [COMPILING |-> "Failed to build application!",
   EXTRACTING_BINARY |-> "Failed to generate .bin file",
   EXTRACTING_HEX |-> "Failed to generate .hex file",
   DISASSEMBLING |-> "Failed to generate .S file",
   DISASSEMBLING_WITH_SOURCE |-> "Failed to generate .lst file",
   SIZING |-> "Failed to generate .size file"]

\* The start_message of the GenerateAndCheck call of each stage.
StartMessage ==
  [COMPILING |-> "Building .elf ... ",
   EXTRACTING_BINARY |-> "Generating: .bin  (binary) ",
   EXTRACTING_HEX |-> ".hex  (intel HEX file) ",
   DISASSEMBLING |-> ".S    (disassembly) ",
   DISASSEMBLING_WITH_SOURCE |-> ".lst  (disassembly with source code) ",
   SIZING |-> ".size (size information) "]

\* The files the command of a stage writes itself (only when it succeeds)
\* and the files the shell opens for its redirections (always).
Outputs ==
  [COMPILING |-> {"elf"}, EXTRACTING_BINARY |-> {"bin"}, EXTRACTING_HEX |-> {"hex"},
   DISASSEMBLING |-> {}, DISASSEMBLING_WITH_SOURCE |-> {}, SIZING |-> {}]
Redirects ==
  [COMPILING |-> {"size.percent", "log"}, EXTRACTING_BINARY |-> {}, EXTRACTING_HEX |-> {},
   DISASSEMBLING |-> {"S"}, DISASSEMBLING_WITH_SOURCE |-> {"lst"}, SIZING |-> {"size"}]

ProcessStages == DOMAIN ErrorMessage
ArtifactStages == ProcessStages \ {"COMPILING"}
ArtifactFiles == UNION {Outputs[st] \cup Redirects[st] : st \in ProcessStages}

Line(text) == [text |-> text, of |-> 0]
Contents(file, n) == [text |-> file, of |-> n]

\* (variant: a failing command takes the artifacts of the build with it)
System_RollsBack(art, st, exit_code, n) ==
  [f \in ArtifactFiles |->
     IF exit_code # 0 THEN 0
     ELSE IF f \in Redirects[st] \/ f \in Outputs[st] THEN n ELSE art[f]]

\* os.system(command_string) of stage st in build n: the files afterwards.
System(art, st, exit_code, n) ==
  [f \in ArtifactFiles |->
     IF f \in Redirects[st] \/ (f \in Outputs[st] /\ exit_code = 0) THEN n ELSE art[f]]

\* (variant: a nonzero exit code is reported but not raised)
GenerateAndCheck_NoRaise(start_message, exit_code, error_message) ==
  IF exit_code # 0
  THEN [echo |-> <<Line(start_message), Line(CROSS_MARK)>>, raised |-> FALSE,
        exception |-> "", ran |-> 1]
  ELSE [echo |-> <<Line(start_message), Line(CHECK_MARK)>>, raised |-> FALSE,
        exception |-> "", ran |-> 1]

\* GenerateAndCheck: prints the start message, runs the command once,
\* prints the cross mark and raises Exception(error_message) on a nonzero
\* exit code, prints the check mark otherwise.
GenerateAndCheck(start_message, exit_code, error_message) ==
  IF exit_code # 0
  THEN [echo |-> <<Line(start_message), Line(CROSS_MARK)>>, raised |-> TRUE,
        exception |-> error_message, ran |-> 1]
  ELSE [echo |-> <<Line(start_message), Line(CHECK_MARK)>>, raised |-> FALSE,
        exception |-> "", ran |-> 1]

\* (variant: a missing file reads as no flags)
ReadText_EmptyWhenMissing(exists) == [raised |-> FALSE, text |-> ""]

\* Path(...gcc.txt).read_text(): the flags, or FileNotFoundError.
ReadText(exists) ==
  IF exists THEN [raised |-> FALSE, text |-> "PLATFORM_ARGUMENTS"]
  ELSE [raised |-> TRUE, text |-> ""]

\* The exit status of the interpreter: a handler that returns ends with 0,
\* an exception nobody catches ends with 1.
ExitStatus(uncaught) == IF uncaught THEN 1 ELSE 0

\* (variant: the except clause of the compile step does not return)
CompileOutcome_FallsThrough(raised) == NextStage("COMPILING")

\* try: GenerateAndCheck(...compile...) except: ...; return
CompileOutcome(raised) == IF raised THEN "FAILED" ELSE NextStage("COMPILING")

\* (variant: each artifact step in a try block of its own)
ArtifactOutcome_Continues(st, raised) == NextStage(st)

\* The five calls in one try block: an exception leaves the block.
ArtifactOutcome(st, raised) == IF raised THEN "FAILED" ELSE NextStage(st)

BuildIdle ==
  /\ stage = "IDLE"
  /\ failed_stage = ""
  /\ source = <<>>
  /\ run = <<>>
  /\ printed = <<>>
  /\ artifacts = [f \in ArtifactFiles |-> 0]
  /\ gcc_txt = TRUE
  /\ build_no = 0
  /\ exception = ""
  /\ exit_status = NotRun

\* A build command is started.
build(src) ==
  /\ stage \in {"IDLE", "DONE", "FAILED"}
  /\ build_no < MaxBuilds
  /\ build_no' = build_no + 1
  /\ source' = src
  /\ stage' = "LOCATING_WORKSPACE"
  /\ failed_stage' = ""
  /\ run' = <<>>
  /\ printed' = <<>>
  /\ exception' = ""
  /\ exit_status' = NotRun
  /\ UNCHANGED <<artifacts, gcc_txt, usVars, pkgVars, stVars, btVars>>

\* try: PROJECT_DIRECTORY = FileUpsearch('.sj2', source) except: ...; return
LocateWorkspace ==
  /\ stage = "LOCATING_WORKSPACE"
  /\ IF FileUpsearch(source, marked).k = "returned"
     THEN /\ stage' = NextStage(stage)
          /\ UNCHANGED <<failed_stage, printed, exit_status>>
     ELSE /\ stage' = "FAILED"
          /\ failed_stage' = stage
          /\ printed' = <<Line("does not exist within a SJSU-Dev2 project!")>>
          /\ exit_status' = ExitStatus(FALSE)
  /\ UNCHANGED <<source, run, artifacts, gcc_txt, build_no, exception, usVars, pkgVars, stVars, btVars>>

\* The paths and commands are put together; Path(gcc.txt).read_text() raises
\* FileNotFoundError when the file is missing. Then the artifacts directory
\* is made.
AssembleCommand ==
  /\ stage = "ASSEMBLING_COMMAND"
  /\ IF ~ReadText(gcc_txt).raised
     THEN /\ stage' = NextStage(stage)
          /\ UNCHANGED <<failed_stage, printed, exit_status>>
     ELSE /\ stage' = "FAILED"
          /\ failed_stage' = stage
          /\ printed' = <<Line("Traceback: FileNotFoundError")>>
          /\ exit_status' = ExitStatus(TRUE)
  /\ UNCHANGED <<source, run, artifacts, gcc_txt, build_no, exception, usVars, pkgVars, stVars, btVars>>

Compile(exit_code) ==
  LET st == "COMPILING"
      gc == GenerateAndCheck(StartMessage[st], exit_code, ErrorMessage[st])
      files == System(artifacts, st, exit_code, build_no)
  IN  /\ stage = st
      /\ run' = run \o [i \in 1..gc.ran |-> [step |-> st, code |-> exit_code]]
      /\ artifacts' = files
      /\ stage' = CompileOutcome(gc.raised)
      /\ failed_stage' = IF gc.raised THEN st ELSE failed_stage
      /\ printed' = IF gc.raised
                    THEN printed \o gc.echo \o
                         <<Line("Build command:"), Line("BUILD_COMMAND"),
                           Line("Build Log Contents:"), Contents("log", files["log"])>>
                    ELSE printed \o gc.echo
      /\ exception' = gc.exception
      /\ exit_status' = IF gc.raised THEN ExitStatus(FALSE) ELSE exit_status
      /\ UNCHANGED <<source, gcc_txt, build_no, usVars, pkgVars, stVars, btVars>>

\* One GenerateAndCheck call of the second try block; after the last one
\* the summary is printed.
ArtifactStep(st, exit_code) ==
  LET gc == GenerateAndCheck(StartMessage[st], exit_code, ErrorMessage[st])
      files == System(artifacts, st, exit_code, build_no)
      next == ArtifactOutcome(st, gc.raised)
  IN  /\ stage = st
      /\ run' = run \o [i \in 1..gc.ran |-> [step |-> st, code |-> exit_code]]
      /\ artifacts' = files
      /\ stage' = next
      /\ failed_stage' = IF gc.raised THEN st ELSE failed_stage
      /\ printed' = IF gc.raised
                    THEN printed \o gc.echo \o <<Line("FAILURE!"), Line(gc.exception)>>
                    ELSE IF next = "DONE"
                    THEN printed \o gc.echo \o
                         <<Line("Section Memory Usage"), Contents("size", files["size"]),
                           Contents("size.percent", files["size.percent"]),
                           Line("Build Log Contents:"), Contents("log", files["log"])>>
                    ELSE printed \o gc.echo
      /\ exception' = gc.exception
      /\ exit_status' = IF gc.raised \/ next = "DONE" THEN ExitStatus(FALSE)
                        ELSE exit_status
      /\ UNCHANGED <<source, gcc_txt, build_no, usVars, pkgVars, stVars, btVars>>

GenerateBinary == \E c \in ExitCodes : ArtifactStep("EXTRACTING_BINARY", c)
GenerateHex == \E c \in ExitCodes : ArtifactStep("EXTRACTING_HEX", c)
GenerateDisasm == \E c \in ExitCodes : ArtifactStep("DISASSEMBLING", c)
GenerateDisasmS == \E c \in ExitCodes : ArtifactStep("DISASSEMBLING_WITH_SOURCE", c)
GenerateSize == \E c \in ExitCodes : ArtifactStep("SIZING", c)

\* ------------------------------------------------------------------------
\* build-test: compile the host test, then run it when --run is given
\* ------------------------------------------------------------------------
MaxTests == 3      \* number of build-test invocations

TestStartMessage ==
  [COMPILING |-> "Building test 'TEST_EXECUTABLE.exe' ... ",
   RUNNING |-> "Running 'TEST_EXECUTABLE.exe' ... "]
TestErrorMessage ==
  [COMPILING |-> "Failed to build application!",
   RUNNING |-> "Failed to build application!"]

\* An os.system call of build-test, with the .gcda file as the process
\* found it.
TestProcess(st, exit_code, files) ==
  [step |-> st, code |-> exit_code, gcda |-> files.gcda]

\* AttemptToUnlinkPath(f'{TEST_EXECUTABLE}.gcda')
UnlinkGcda(files) == [files EXCEPT !.gcda = 0]

\* (variant: the except clause of the compile step does not return)
AfterTestCompile_IgnoresFailure(raised, run_arg) ==
  IF run_arg THEN "UNLINKING_GCDA" ELSE "DONE"

\* try: mkdir; GenerateAndCheck(...) except: return, then 'if run:'
AfterTestCompile(raised, run_arg) ==
  IF raised THEN "FAILED" ELSE IF run_arg THEN "UNLINKING_GCDA" ELSE "DONE"

TestIdle ==
  /\ test_stage = "IDLE"
  /\ test_failed = ""
  /\ test_source = <<>>
  /\ run_flag = FALSE
  /\ test_run = <<>>
  /\ test_files = [exe |-> 0, gcda |-> 0]
  /\ test_no = 0

\* A build-test command is started.
build_test(test_source_code, run_arg) ==
  /\ test_stage \in {"IDLE", "DONE", "FAILED"}
  /\ test_no < MaxTests
  /\ test_no' = test_no + 1
  /\ test_source' = test_source_code
  /\ run_flag' = run_arg
  /\ test_stage' = "LOCATING_WORKSPACE"
  /\ test_failed' = ""
  /\ test_run' = <<>>
  /\ UNCHANGED <<test_files, usVars, pkgVars, bldVars, stVars>>

\* try: PROJECT_DIRECTORY = FileUpsearch('.sj2', test_source_code)
\* except: ...; return
TestLocateWorkspace ==
  /\ test_stage = "LOCATING_WORKSPACE"
  /\ IF FileUpsearch(test_source, marked).k = "returned"
     THEN test_stage' = "COMPILING" /\ UNCHANGED test_failed
     ELSE test_stage' = "FAILED" /\ test_failed' = test_stage
  /\ UNCHANGED <<test_source, run_flag, test_run, test_files, test_no,
                 usVars, pkgVars, bldVars, stVars>>

\* The directory of the executable is made and the compiler is run, both
\* in one try block whose except clause returns. The compiler writes the
\* executable when it succeeds; the .gcda file is written by the test, not
\* by the compiler.
TestCompile(mkdir_ok, exit_code) ==
  LET st == "COMPILING"
      gc == GenerateAndCheck(TestStartMessage[st], exit_code, TestErrorMessage[st])
  IN  /\ test_stage = st
      /\ IF ~mkdir_ok
         THEN /\ test_stage' = "FAILED"
              /\ test_failed' = st
              /\ UNCHANGED <<test_run, test_files>>
         ELSE /\ test_run' = test_run \o
                   [i \in 1..gc.ran |-> TestProcess(st, exit_code, test_files)]
              /\ test_files' = [test_files EXCEPT
                                  !.exe = IF exit_code = 0 THEN test_no ELSE @]
              /\ test_stage' = AfterTestCompile(gc.raised, run_flag)
              /\ test_failed' = IF gc.raised THEN st ELSE test_failed
      /\ UNCHANGED <<test_source, run_flag, test_no, usVars, pkgVars, bldVars, stVars>>

\* if run: AttemptToUnlinkPath(f'{TEST_EXECUTABLE}.gcda')
TestUnlinkGcda ==
  /\ test_stage = "UNLINKING_GCDA"
  /\ test_files' = UnlinkGcda(test_files)
  /\ test_stage' = "RUNNING"
  /\ UNCHANGED <<test_failed, test_source, run_flag, test_run, test_no,
                 usVars, pkgVars, bldVars, stVars>>

\* GenerateAndCheck(..., f'{TEST_EXECUTABLE}.exe', ...), in no try block.
\* Whether the test leaves coverage data at that path is up to the
\* toolchain and to how the test ends.
TestRun(exit_code, writes_gcda) ==
  LET st == "RUNNING"
      gc == GenerateAndCheck(TestStartMessage[st], exit_code, TestErrorMessage[st])
  IN  /\ test_stage = st
      /\ test_run' = test_run \o
           [i \in 1..gc.ran |-> TestProcess(st, exit_code, test_files)]
      /\ test_files' = [test_files EXCEPT !.gcda = IF writes_gcda THEN test_no ELSE @]
      /\ test_stage' = IF gc.raised THEN "FAILED" ELSE "DONE"
      /\ test_failed' = IF gc.raised THEN st ELSE test_failed
      /\ UNCHANGED <<test_source, run_flag, test_no, usVars, pkgVars, bldVars, stVars>>

\* ------------------------------------------------------------------------
\* The build command on one workspace
\* ------------------------------------------------------------------------
InitBuild ==
  /\ marked = {Workspace}
  /\ UpsearchIdle
  /\ PackagesIdle
  /\ StartIdle
  /\ TestIdle
  /\ stage = "IDLE"
  /\ failed_stage = ""
  /\ source = <<>>
  /\ run = <<>>
  /\ printed = <<>>
  /\ artifacts = [f \in ArtifactFiles |-> 0]
  /\ gcc_txt \in BOOLEAN
  /\ build_no = 0
  /\ exception = ""
  /\ exit_status = NotRun

NextBuild ==
  \/ \E src \in BuildSources : build(src)
  \/ LocateWorkspace
  \/ AssembleCommand
  \/ \E c \in ExitCodes : Compile(c)
  \/ GenerateBinary
  \/ GenerateHex
  \/ GenerateDisasm
  \/ GenerateDisasmS
  \/ GenerateSize

SpecBuild == InitBuild /\ [][NextBuild]_vars

\* ------------------------------------------------------------------------
\* The build-test command on one workspace
\* ------------------------------------------------------------------------
InitBuildTest ==
  /\ marked = {Workspace}
  /\ UpsearchIdle
  /\ PackagesIdle
  /\ BuildIdle
  /\ StartIdle
  /\ TestIdle

NextBuildTest ==
  \/ \E src \in BuildSources, run_arg \in BOOLEAN : build_test(src, run_arg)
  \/ TestLocateWorkspace
  \/ \E mkdir_ok \in BOOLEAN, c \in ExitCodes : TestCompile(mkdir_ok, c)
  \/ TestUnlinkGcda
  \/ \E c \in ExitCodes, writes_gcda \in BOOLEAN : TestRun(c, writes_gcda)

SpecBuildTest == InitBuildTest /\ [][NextBuildTest]_vars

\* ------------------------------------------------------------------------
\* The package commands on one workspace
\* ------------------------------------------------------------------------
InitPackages ==
  /\ marked = {Workspace}
  /\ UpsearchIdle
  /\ PackagesIdle
  /\ BuildIdle
  /\ StartIdle
  /\ TestIdle

NextPackages ==
  \/ \E id \in Identifiers, pd \in ProjectDirectories, tag \in Tags,
        remote_ok \in BOOLEAN, symlink_ok \in BOOLEAN :
        install(id, pd, tag, remote_ok, symlink_ok)
  \/ \E id \in RemoveArguments, pd \in ProjectDirectories : remove(id, pd)

SpecPackages == InitPackages /\ [][NextPackages]_vars

\* ------------------------------------------------------------------------
\* The start command, run once where there is no project yet
\* ------------------------------------------------------------------------
InitStart ==
  /\ marked = {}
  /\ UpsearchIdle
  /\ BuildIdle
  /\ StartIdle
  /\ TestIdle
  /\ packages = [n \in StartPackages |-> Absent]
  /\ library = [n \in StartPackages |-> NoLink]
  /\ cwd = StartCwd
  /\ last = NoCommand
  /\ prev = Summary(NoCommand)
  /\ nops = 0

NextStart ==
  \/ \E name \in ProjectNames, platform \in Platforms : StartProject(name, platform)
  \/ \E remote_ok \in BOOLEAN, symlink_ok \in BOOLEAN : StartInstall(remote_ok, symlink_ok)

SpecStart == InitStart /\ [][NextStart]_vars

\* ------------------------------------------------------------------------
\* Properties of install and remove
\* ------------------------------------------------------------------------
LastInstallFetched == last.op = "install" /\ last.clone_exit # NotRun

\* C1: two installs of the same library in succession, the remote
\* reachable both times, leave the link library/<name> in place, pointing
\* at the content the second install fetched.
C1_SecondInstallRelinks ==
  (/\ prev.op = "install" /\ prev.result = "ok" /\ prev.remote_ok
   /\ LastInstallFetched /\ last.remote_ok /\ last.symlink_ok
   /\ last.name = prev.name
   /\ last.had_link
   /\ Tree(last.name, last.tag).inner)
  => (/\ library[last.name] = last.name
      /\ packages[last.name] = Tree(last.name, last.tag))

\* C2: an install that finds a cache entry packages/<short_name>/ of an
\* earlier install, the remote reachable, fetches a clean checkout: it
\* succeeds and the cache entry is the tree at the new tag.
C2_ReinstallOverwritesCache ==
  (LastInstallFetched /\ last.remote_ok /\ last.had_cache)
  => (/\ last.clone_exit = 0
      /\ last.result = "ok"
      /\ packages[last.name] = Tree(last.name, last.tag))

\* C3: an install whose fetch fails ends as a failure and leaves every
\* link and every cache entry as it was.
C3_FetchFailureLeavesState ==
  [][(/\ nops' = nops + 1
      /\ last'.op = "install"
      /\ last'.clone_exit \notin {0, NotRun})
     => (/\ last'.result = "fetchfailed"
         /\ last'.exit # 0
         /\ library' = library
         /\ packages' = packages)]_vars

C3_Witness ==
  /\ LastInstallFetched
  /\ last.clone_exit # 0
  /\ last.had_cache
  /\ last.had_link
  /\ library[last.name] = last.name

\* C6: install resolves a registry key to the registry's URL and any
\* other identifier that parses as a URL to itself; an identifier that is
\* neither fails before a fetch is attempted.
C6_ReferenceResolution ==
  (last.op = "install" /\ last.found)
  => LET registry == GetListOfSJSUDev2Repos
     IN  /\ last.id \in DOMAIN registry
              => (last.url = registry[last.id] /\ last.clone_exit # NotRun)
         /\ (last.id \notin DOMAIN registry /\ last.id \in DOMAIN UrlName)
              => (last.url = last.id /\ last.clone_exit # NotRun)
         /\ (last.id \notin DOMAIN registry /\ last.id \notin DOMAIN UrlName)
              => (last.result = "invalid" /\ last.exit # 0 /\ last.clone_exit = NotRun)

C6_Witness ==
  /\ last.op = "install"
  /\ last.found
  /\ last.id = "notapackage"
  /\ last.result = "invalid"
  /\ prev.op = "install"
  /\ prev.result = "ok"

\* C7: remove deletes the cache entry without error when it exists, the
\* link being there or not, and fails when there is no cache entry.
C7_RemovePermissiveOnLinkOnly ==
  (last.op = "remove" /\ last.found)
  => /\ last.had_cache
          => (/\ last.result = "ok" /\ last.exit = 0
              /\ packages[last.id] = Absent
              /\ library[last.id] = NoLink)
     /\ ~last.had_cache => (last.result = "notfound" /\ last.exit # 0)

C7_Witness ==
  /\ last.op = "remove"
  /\ last.found
  /\ last.had_cache
  /\ ~last.had_link
  /\ last.result = "ok"
  /\ packages[last.id] = Absent

LastInstallSucceeded == LastInstallFetched /\ last.clone_exit = 0

\* C14 (as stated): an install whose fetch succeeded ends as a success; it
\* leaves no link when packages/<name>/<name> does not exist, and a link
\* library/<name> resolving to packages/<name>/<name> when it does.
C14_LinkIffInnerDirectory ==
  LastInstallSucceeded =>
    /\ last.result = "ok" /\ last.exit = 0
    /\ ~packages[last.name].inner => library[last.name] = NoLink
    /\ packages[last.name].inner => library[last.name] = last.name

\* C14 (amended): as above, but the link is there only when the platform
\* could make it; when it could not, the install is a success all the same
\* and there is no link.
C14_LinkIffInnerDirectoryAndLinkable ==
  LastInstallSucceeded =>
    /\ last.result = "ok" /\ last.exit = 0
    /\ packages[last.name] = Tree(last.name, last.tag)
    /\ ~packages[last.name].inner => library[last.name] = NoLink
    /\ (packages[last.name].inner /\ last.symlink_ok) => library[last.name] = last.name
    /\ (packages[last.name].inner /\ ~last.symlink_ok) => library[last.name] = NoLink

C14_Witness ==
  /\ LastInstallSucceeded
  /\ last.name = "gcc-arm-none-eabi-picolibc"
  /\ ~packages[last.name].inner
  /\ library[last.name] = NoLink
  /\ prev.op = "install" /\ prev.result = "ok" /\ prev.name = "libcore"
  /\ library["libcore"] = "libcore"
  /\ packages["libcore"].inner

\* C15: the marker of the workspace that start made is there in every
\* state install and remove can reach.
C15_MarkerStable == Workspace \in marked

\* C17: a successful install followed by remove with the same identifier,
\* whatever its form, leaves neither the link nor the cache entry of the
\* package that was installed.
C17_InstallRemoveRoundTrip ==
  (/\ prev.op = "install" /\ prev.result = "ok"
   /\ last.op = "remove" /\ last.found
   /\ last.id = prev.id)
  => (/\ library[prev.name] = NoLink
      /\ packages[prev.name] = Absent)

\* C19: every link library/<name> resolves to a directory
\* packages/<name>/<name> that exists.
C19_NoDanglingLinks ==
  \A n \in DOMAIN library :
    library[n] # NoLink => (library[n] = n /\ packages[n] # Absent /\ packages[n].inner)

C18_StartInstallsIntoNewWorkspace ==
  \A i \in DOMAIN resolved : resolved[i] = project

\* ------------------------------------------------------------------------
\* Properties of build
\* ------------------------------------------------------------------------
\* The artifact steps in pipeline order; step k is run[k + 1], after the
\* compile step.
ArtifactStepStage(k) == StageOrder[Rank("COMPILING") + k]

LastPrinted == printed[Len(printed)]

\* C8: when artifact step k exits nonzero it is the last process of the
\* run, the build has failed at step k and the failure printed is the error
\* message of step k.
C8_PipelineShortCircuit ==
  \A k \in 1..5 :
    (Len(run) >= k + 1 /\ run[k + 1].code # 0)
    => (/\ Len(run) = k + 1
        /\ run[k + 1].step = ArtifactStepStage(k)
        /\ stage = "FAILED"
        /\ failed_stage = ArtifactStepStage(k)
        /\ LastPrinted = Line(ErrorMessage[ArtifactStepStage(k)]))

C8_Witness ==
  /\ Len(run) = 4
  /\ run[4].code # 0
  /\ stage = "FAILED"
  /\ failed_stage = "DISASSEMBLING"
  /\ LastPrinted = Line("Failed to generate .S file")

\* C9: when the compile and link step exits nonzero no artifact step is
\* run, and the build command and the compile log of this build are printed.
C9_CompileFailureSkipsArtifacts ==
  (Len(run) >= 1 /\ run[1].code # 0)
  => (/\ run[1].step = "COMPILING"
      /\ Len(run) = 1
      /\ stage = "FAILED"
      /\ failed_stage = "COMPILING"
      /\ Len(printed) >= 4
      /\ SubSeq(printed, Len(printed) - 3, Len(printed)) =
           <<Line("Build command:"), Line("BUILD_COMMAND"),
             Line("Build Log Contents:"), Contents("log", build_no)>>)

C9_Witness ==
  /\ Len(run) = 1
  /\ run[1].code # 0
  /\ stage = "FAILED"
  /\ failed_stage = "COMPILING"
  /\ build_no = 2
  /\ artifacts["bin"] = 1
  /\ LastPrinted = Contents("log", 2)

\* Every process run so far in this invocation exited with zero.
AllSucceeded(r) == \A i \in DOMAIN r : r[i].code = 0

\* C10: within one invocation the stage moves only to the next stage of
\* the order, and only when every process so far succeeded, or to FAILED of
\* the stage it is in; nothing leaves DONE or FAILED.
C10_StrictStageOrder ==
  [][(build_no' = build_no /\ stage' # stage)
     => \/ /\ stage \in {StageOrder[i] : i \in 1..(Len(StageOrder) - 1)}
           /\ stage' = StageOrder[Rank(stage) + 1]
           /\ AllSucceeded(run')
           /\ Len(run') = Cardinality({st \in ProcessStages : Rank(st) < Rank(stage')})
           /\ failed_stage' = ""
        \/ /\ stage \in {StageOrder[i] : i \in 1..(Len(StageOrder) - 1)}
           /\ stage' = "FAILED"
           /\ failed_stage' = stage]_vars

C10_Witness ==
  /\ stage = "DONE"
  /\ build_no = 2
  /\ Len(run) = 6
  /\ AllSucceeded(run)

\* C11: when the platform's gcc.txt is missing, build fails at the assembly
\* of the command with a nonzero exit status: no process is ever started, no
\* artifact is written and the build never goes on to compile as if the
\* flags were empty.
C11_MissingFlagsFailFast ==
  ~gcc_txt =>
    /\ run = <<>>
    /\ artifacts = [f \in ArtifactFiles |-> 0]
    /\ stage \notin ProcessStages \cup {"DONE"}
    /\ (stage = "FAILED" /\ failed_stage = "ASSEMBLING_COMMAND" => exit_status # 0)
    /\ (stage = "FAILED" => failed_stage \in {"LOCATING_WORKSPACE", "ASSEMBLING_COMMAND"})

C11_Witness ==
  /\ ~gcc_txt
  /\ stage = "FAILED"
  /\ failed_stage = "ASSEMBLING_COMMAND"
  /\ exit_status = 1
  /\ run = <<>>

\* C12: a build that has ended has exit status 0 exactly when every stage
\* succeeded; a build that failed at any stage (workspace not found, compile,
\* artifact step) has a nonzero exit status.
C12_ExitCodeReflectsOutcome ==
  exit_status # NotRun =>
    /\ (exit_status = 0 <=> stage = "DONE")
    /\ (stage = "FAILED" => exit_status # 0)

\* C13: when an artifact step fails, the files written by the stages before
\* it in this build are all still there, as this build wrote them.
ProducedBefore(st) ==
  UNION {Outputs[s] \cup Redirects[s] : s \in {t \in ProcessStages : Rank(t) < Rank(st)}}

C13_NoRollbackOfArtifacts ==
  [][(stage \in ArtifactStages /\ stage' = "FAILED") =>
       \A f \in ProducedBefore(stage) :
         artifacts'[f] = build_no /\ artifacts'[f] = artifacts[f]]_vars

C13_Witness ==
  /\ stage = "FAILED"
  /\ failed_stage = "DISASSEMBLING"
  /\ build_no = 1
  /\ \A f \in {"elf", "bin", "hex", "log", "size.percent"} : artifacts[f] = 1

\* C16: every call of GenerateAndCheck ran its process exactly once; it
\* printed the check mark and returned when the exit code was zero, and
\* otherwise printed the cross mark and raised the error message of its
\* step, which ended the build.
IsMark(l) == l.of = 0 /\ l.text \in {CHECK_MARK, CROSS_MARK}
Marks == SelectSeq(printed, IsMark)

C16_GenerateAndCheckContract ==
  /\ Len(Marks) = Len(run)
  /\ \A i \in DOMAIN run :
       /\ (Marks[i].text = CHECK_MARK <=> run[i].code = 0)
       /\ (Marks[i].text = CROSS_MARK <=> run[i].code # 0)
       /\ run[i].code = 0 => (i < Len(run) \/ exception = "")
       /\ run[i].code # 0 =>
            /\ i = Len(run)
            /\ stage = "FAILED"
            /\ failed_stage = run[i].step
            /\ exception = ErrorMessage[run[i].step]
  /\ \A i, j \in DOMAIN run : i < j => Rank(run[i].step) < Rank(run[j].step)

C16_Witness ==
  /\ Len(run) = 3
  /\ run[1].code = 0
  /\ run[2].code = 0
  /\ run[3].code # 0
  /\ exception = "Failed to generate .hex file"
  /\ Marks[3].text = CROSS_MARK

\* ------------------------------------------------------------------------
\* Properties of build-test
\* ------------------------------------------------------------------------
TestWasRun == \E i \in DOMAIN test_run : test_run[i].step = "RUNNING"

\* C21: the test executable is run only with --run and only after the
\* compile step of the same invocation exited with zero, and the .gcda file
\* is gone when the executable starts; when the compile step fails the
\* executable is not run and the .gcda file is as it was; without --run the
\* executable is not run.
C21_TestRunsOnlyAfterBuild ==
  /\ \A i \in DOMAIN test_run :
       test_run[i].step = "RUNNING" =>
         /\ run_flag
         /\ i = 2
         /\ test_run[1].step = "COMPILING"
         /\ test_run[1].code = 0
         /\ test_run[i].gcda = 0
  /\ test_failed = "COMPILING" =>
       /\ ~TestWasRun
       /\ test_stage = "FAILED"
       /\ \A i \in DOMAIN test_run : test_files.gcda = test_run[i].gcda
  /\ (\E i \in DOMAIN test_run : test_run[i].code # 0 /\ test_run[i].step = "COMPILING")
       => ~TestWasRun /\ test_stage = "FAILED"
  /\ ~run_flag => ~TestWasRun /\ test_stage \notin {"UNLINKING_GCDA", "RUNNING"}
  /\ test_stage = "RUNNING" => test_files.gcda = 0

\* A second invocation with --run finds the .gcda file of the first and
\* starts the executable without it.
C21_Witness ==
  /\ test_no = 2
  /\ run_flag
  /\ Len(test_run) = 2
  /\ test_run[1].code = 0
  /\ test_run[1].gcda = 1
  /\ test_run[2].step = "RUNNING"
  /\ test_run[2].gcda = 0

\* A failed compile with --run leaves the .gcda file of the invocation
\* before it.
C21_CompileFailureWitness ==
  /\ test_no = 2
  /\ run_flag
  /\ test_failed = "COMPILING"
  /\ Len(test_run) = 1
  /\ test_files.gcda = 1

\* ------------------------------------------------------------------------
\* The workspace locator on its own, over every placement of the marker
\* ------------------------------------------------------------------------
InitUpsearch ==
  /\ marked \in SUBSET Dirs
  /\ start \in StartPaths
  /\ cur_dir = UpsearchEntry(start)
  /\ us_pc = "loop"
  /\ us_iters = 0
  /\ PackagesIdle
  /\ BuildIdle
  /\ StartIdle
  /\ TestIdle

NextUpsearch ==
  \/ \E sp \in StartPaths : UpsearchCall(sp)
  \/ UpsearchReturn
  \/ UpsearchRaise
  \/ UpsearchListdirFails
  \/ UpsearchAscend

SpecUpsearch == InitUpsearch /\ [][NextUpsearch]_vars

\* ------------------------------------------------------------------------
\* Properties of the workspace locator
\* ------------------------------------------------------------------------
\* The directory a starting position lies in: the directory itself, or the
\* directory that holds the file.
StartDirectory(sp) == IF IsDir(sp) THEN Resolve(sp) ELSE Resolve(Front(sp))

IsPrefix(p, d) == Len(p) <= Len(d) /\ SubSeq(d, 1, Len(p)) = p

\* The ancestors of directory d, d included.
Ancestors(d) == {p \in Dirs : IsPrefix(p, d)}

MarkedAncestors(d, mk) == Ancestors(d) \cap mk

NearestMarkedAncestor(d, mk) ==
  CHOOSE p \in MarkedAncestors(d, mk) : \A q \in MarkedAncestors(d, mk) : Len(q) <= Len(p)

UpsearchFinished == us_pc \in {"returned", "raised", "oserror"}

\* C4: from every starting path (file or directory) under a workspace root
\* FileUpsearch returns the nearest ancestor directory, the starting
\* directory included, that holds the marker.
C4_ReturnsNearestMarkedAncestor ==
  (/\ UpsearchFinished
   /\ StartDirectory(start) # NoEnt
   /\ MarkedAncestors(StartDirectory(start), marked) # {})
  => (/\ us_pc = "returned"
      /\ Resolve(cur_dir.path) = NearestMarkedAncestor(StartDirectory(start), marked))

\* C5: from every starting path that has no marked ancestor FileUpsearch
\* reaches the filesystem root and fails there; the loop never runs more
\* iterations than the path has ancestors (one more for the first,
\* Path-typed comparison).
C5_FailsAtRootWithoutWorkspace ==
  /\ us_iters <= MaxStart + 2
  /\ (/\ UpsearchFinished
      /\ StartDirectory(start) # NoEnt
      /\ MarkedAncestors(StartDirectory(start), marked) = {})
     => (us_pc = "raised" /\ cur_dir.path = <<>>)
====
